---- MODULE Spec2Model ----
(***************************************************************************)
(* Model of src/context.rs: the Context / InnerContext shared-ownership    *)
(* wrapper over the native iio_context handle, the Device values derived   *)
(* from a Context, and the DeviceIterator.                                 *)
(*                                                                         *)
(* Native handles are modelled as allocation identities 1..MaxHandles      *)
(* (NULL is 0).  usize / u64 values are little-endian sequences of four    *)
(* 16-bit limbs, c_uint values sequences of two, so that the `as c_uint`   *)
(* casts keep their real widths.                                           *)
(***************************************************************************)
EXTENDS Integers, Sequences, FiniteSets, TLC

\* ---- bounds of the model ----
MaxHandles == 2     \* native contexts the library can hand out
MaxCtx     == 2     \* Context values alive at once
MaxDev     == 1     \* Device values alive at once
MaxIter    == 1     \* DeviceIterator values alive at once
MaxDevices == 2     \* devices of one native context
MaxStrLen  == 1     \* length of the strings a caller passes
MaxByte    == 2     \* bytes of those strings are 0..MaxByte

\* ---- program constants ----
NULL       == 0
LimbBase   == 65536
UsizeLimbs == 4
CUintLimbs == 2

Handles   == 1..MaxHandles
Ptrs      == 0..MaxHandles
CtxSlots  == 1..MaxCtx
DevSlots  == 1..MaxDev
IterSlots == 1..MaxIter
Bytes     == 0..MaxByte
Strings   == UNION {[1..n -> Bytes] : n \in 0..MaxStrLen}
NoCtx     == [live |-> FALSE, ctx |-> 0]
NoDev     == [live |-> FALSE, dev |-> 0, ctx |-> 0]
NoIter    == [live |-> FALSE, ctx |-> 0, idx |-> <<0, 0, 0, 0>>]

\* ---- fixed-width integers ----
Usize(n) == [i \in 1..UsizeLimbs |-> IF i = 1 THEN n ELSE 0]

\* `x as c_uint` for x: usize -- keeps the low 32 bits
AsCUint(x) == [i \in 1..CUintLimbs |-> x[i]]

\* `n as usize` for n: c_uint -- zero extension
AsUsize(c) == [i \in 1..UsizeLimbs |-> IF i <= CUintLimbs THEN c[i] ELSE 0]

CUint(n) == [i \in 1..CUintLimbs |-> IF i = 1 THEN n ELSE 0]

RECURSIVE LimbLtFrom(_, _, _)
LimbLtFrom(x, y, i) ==
    IF i = 0 THEN FALSE
    ELSE IF x[i] # y[i] THEN x[i] < y[i]
    ELSE LimbLtFrom(x, y, i - 1)

\* x < y for two values of the same width
LimbLt(x, y) == LimbLtFrom(x, y, Len(x))

RECURSIVE LimbIncFrom(_, _)
LimbIncFrom(x, i) ==
    IF i > Len(x) THEN x
    ELSE IF x[i] + 1 < LimbBase THEN [x EXCEPT ![i] = @ + 1]
    ELSE LimbIncFrom([x EXCEPT ![i] = 0], i + 1)

\* x + 1 in the width of x
LimbInc(x) == LimbIncFrom(x, 1)

RECURSIVE LimbMulAddFrom(_, _, _, _)
LimbMulAddFrom(x, k, i, carry) ==
    IF i > Len(x) THEN x
    ELSE LET t == x[i] * k + carry
         IN LimbMulAddFrom([x EXCEPT ![i] = t % LimbBase], k, i + 1,
                           t \div LimbBase)

\* x * k + m in the width of x (wrapping)
LimbMulAdd(x, k, m) == LimbMulAddFrom(x, k, 1, m)

\* std::time::Duration: whole seconds (u64) and sub-second nanoseconds (u32)
Duration(secs, nanos) == [secs |-> secs, nanos |-> nanos]
ZeroDur == Duration(Usize(0), 0)
Durations ==
    { ZeroDur,
      Duration(Usize(0), 999999),
      Duration(Usize(1), 500000000),
      Duration(Usize(2), 0),
      Duration(<<35127, 65, 0, 0>>, 296000000) }

\* ---- strings ----
HasNul(s) == \E i \in 1..Len(s) : s[i] = 0

\* CString::new(s): fails on an interior nul byte
CStringNewLax(s) == [ok |-> TRUE, v |-> s]
CStringNew(s) == IF HasNul(s) THEN [ok |-> FALSE, v |-> <<>>]
                 ELSE [ok |-> TRUE, v |-> s]

VARIABLES
    native,        \* [Ptrs -> "null" | "unalloc" | "live" | "destroyed"]
    nDevices,      \* [Handles -> device count of the native context]
    destroyCalls,  \* [Ptrs -> number of iio_context_destroy calls on it]
    strong,        \* [Ptrs -> strong count of the Rc<InnerContext> wrapping it]
    ctxs,          \* [CtxSlots -> a Context: live, inner.ctx]
    devs,          \* [DevSlots -> a Device: live, dev, ctx (the handle shared)]
    iters,         \* [IterSlots -> a DeviceIterator: live, ctx (slot borrowed), idx]
    hist,          \* [IterSlots -> what the iterator has yielded] (history)
    last           \* the last operation: arguments, result, native calls

vars == <<native, nDevices, destroyCalls, strong, ctxs, devs, iters,
          hist, last>>

\* ---- records of the last operation ----
Call(fn, h, arg, n, r, ok) ==
    [fn |-> fn, h |-> h, arg |-> arg, n |-> n, r |-> r, ok |-> ok]

Last(op, self, str, idx, ret, out, calls) ==
    [op |-> op, self |-> self, str |-> str, idx |-> idx, ret |-> ret,
     out |-> out, calls |-> calls, dur |-> ZeroDur, h |-> NULL,
     other |-> 0]

\* history of an iterator: the device indices yielded, the None results
\* counted up to 2, and whether a Device was yielded after a None
NoHist == [yielded |-> <<>>, nones |-> 0, resumed |-> FALSE]

ErrNul      == "Err(NulError)"
ErrFromUri  == "Err(Msg: Can't create context from URI)"
ErrSys      == "Err(Sys(errno))"
ErrRange    == "Err(Msg: Index out of range)"

\* ---- slots ----
FreeCtx  == {c \in CtxSlots : ~ctxs[c].live}
FreeDev  == {d \in DevSlots : ~devs[d].live}
FreeIter == {i \in IterSlots : ~iters[i].live}
Min(S)   == CHOOSE x \in S : \A y \in S : x <= y

LiveCtx == CtxSlots \ FreeCtx
LiveDev == DevSlots \ FreeDev
LiveIter == IterSlots \ FreeIter

\* a Context borrowed by a DeviceIterator can be neither moved nor dropped
Borrowed(c) == \E i \in LiveIter : iters[i].ctx = c

\* number of Context and Device values sharing handle h
Shares(h) == Cardinality({c \in LiveCtx : ctxs[c].ctx = h})
             + Cardinality({d \in LiveDev : devs[d].ctx = h})

\* ---- the native library ----
\* what a creation entry point can return: NULL, or a new context with
\* some number of devices
CreateResults ==
    {[r |-> NULL, nd |-> 0]} \cup
    (IF \E h \in Handles : native[h] = "unalloc"
     THEN {[r |-> Min({h \in Handles : native[h] = "unalloc"}), nd |-> n] :
              n \in 0..MaxDevices}
     ELSE {})

\* the ID of device k, the key it is found by: the one-byte string k+1
DevId(k) == <<k + 1>>

\* iio_context_get_devices_count
iio_context_get_devices_count(h) == CUint(nDevices[h])

\* iio_context_get_device: device pointer k+1 for index k, NULL out of range
iio_context_get_device(h, i) ==
    IF LimbLt(i, CUint(nDevices[h])) THEN i[1] + 1 ELSE NULL

\* iio_context_find_device: device pointer k+1 of the device with that ID
iio_context_find_device(h, name) ==
    IF \E k \in 0..(nDevices[h] - 1) : name = DevId(k)
    THEN 1 + (CHOOSE k \in 0..(nDevices[h] - 1) : name = DevId(k))
    ELSE NULL

Init ==
    /\ native = [p \in Ptrs |-> IF p = NULL THEN "null" ELSE "unalloc"]
    /\ nDevices = [h \in Handles |-> 0]
    /\ destroyCalls = [p \in Ptrs |-> 0]
    /\ strong = [p \in Ptrs |-> 0]
    /\ ctxs = [c \in CtxSlots |-> NoCtx]
    /\ devs = [d \in DevSlots |-> NoDev]
    /\ iters = [i \in IterSlots |-> NoIter]
    /\ hist = [i \in IterSlots |-> NoHist]
    /\ last = Last("init", 0, <<>>, Usize(0), "unit", 0, <<>>)

\* ---- Rc<InnerContext> ----
\* Rc::clone: one more strong reference
Rc_clone_nocount(h) == strong
Rc_clone(h) == [strong EXCEPT ![h] = @ + 1]

\* Drop for InnerContext: the only iio_context_destroy call
InnerContext_drop_leak(h, l) ==
    /\ UNCHANGED <<native, destroyCalls>>
    /\ last' = l
InnerContext_drop(h, l) ==
    /\ native' = [native EXCEPT ![h] = "destroyed"]
    /\ destroyCalls' = [destroyCalls EXCEPT ![h] = @ + 1]
    /\ last' = [l EXCEPT !.calls =
                   <<Call("iio_context_destroy", h, <<>>, 0, 0,
                          native[h] = "live")>>]

\* Rc::drop: release one strong reference, drop the InnerContext with the last
Rc_drop(h, l) ==
    /\ strong' = [strong EXCEPT ![h] = @ - 1]
    /\ IF strong[h] - 1 = 0
       THEN InnerContext_drop(h, l)
       ELSE /\ UNCHANGED <<native, destroyCalls>>
            /\ last' = l

\* ---- factories ----
\* `if ctx.is_null() { bail!(SysError(..)) }  Ok(Context { inner: Rc::new(..) })`
WrapHandleUnchecked(op, str, call, nd) ==
    /\ FreeCtx # {}
    /\ LET p == call.r
           c == Min(FreeCtx)
       IN /\ native' = [native EXCEPT ![p] = IF p = NULL THEN @ ELSE "live"]
          /\ nDevices' = IF p = NULL THEN nDevices
                         ELSE [nDevices EXCEPT ![p] = nd]
          /\ strong' = [strong EXCEPT ![p] = 1]
          /\ ctxs' = [ctxs EXCEPT ![c] = [live |-> TRUE, ctx |-> p]]
          /\ last' = Last(op, 0, str, Usize(0), "Ok", c, <<call>>)
          /\ UNCHANGED <<destroyCalls, devs, iters, hist>>
WrapHandle(op, str, call, nd) ==
    LET p == call.r IN
    IF p = NULL
    THEN /\ last' = Last(op, 0, str, Usize(0), ErrSys, 0, <<call>>)
         /\ UNCHANGED <<native, nDevices, destroyCalls, strong, ctxs,
                        devs, iters, hist>>
    ELSE /\ FreeCtx # {}
         /\ LET c == Min(FreeCtx)
            IN /\ native' = [native EXCEPT ![p] = "live"]
               /\ nDevices' = [nDevices EXCEPT ![p] = nd]
               /\ strong' = [strong EXCEPT ![p] = 1]
                    /\ ctxs' = [ctxs EXCEPT ![c] = [live |-> TRUE, ctx |-> p]]
               /\ last' = Last(op, 0, str, Usize(0), "Ok", c, <<call>>)
               /\ UNCHANGED <<destroyCalls, devs, iters, hist>>

\* an early return before any native call
Bail(op, self, str, ret) ==
    /\ last' = Last(op, self, str, Usize(0), ret, 0, <<>>)
    /\ UNCHANGED <<native, nDevices, destroyCalls, strong, ctxs, devs,
                   iters, hist>>

Context_new ==
    \E p \in CreateResults :
        WrapHandle("new", <<>>,
                   Call("iio_create_default_context", NULL, <<>>, 0, p.r, TRUE),
                   p.nd)

Context_from_uri_lax ==
    \E uri \in Strings :
        \E p \in CreateResults :
            WrapHandle("from_uri", uri,
                       Call("iio_create_context_from_uri", NULL, uri, 0,
                            p.r, TRUE),
                       p.nd)
Context_from_uri ==
    \E uri \in Strings :
        LET cs == CStringNew(uri) IN
        IF ~cs.ok THEN Bail("from_uri", 0, uri, ErrFromUri)
        ELSE \E p \in CreateResults :
                WrapHandle("from_uri", uri,
                           Call("iio_create_context_from_uri", NULL, cs.v, 0,
                                p.r, TRUE),
                   p.nd)

Context_create_from_uri ==
    \E uri \in Strings :
        LET cs == CStringNew(uri) IN
        IF ~cs.ok THEN Bail("create_from_uri", 0, uri, ErrNul)
        ELSE \E p \in CreateResults :
                WrapHandle("create_from_uri", uri,
                           Call("iio_create_context_from_uri", NULL, cs.v, 0,
                                p.r, TRUE),
                   p.nd)

Context_create_local ==
    \E p \in CreateResults :
        WrapHandle("create_local", <<>>,
                   Call("iio_create_local_context", NULL, <<>>, 0, p.r, TRUE),
                   p.nd)

Context_create_network ==
    \E host \in Strings :
        LET cs == CStringNew(host) IN
        IF ~cs.ok THEN Bail("create_network", 0, host, ErrNul)
        ELSE \E p \in CreateResults :
                WrapHandle("create_network", host,
                           Call("iio_create_network_context", NULL, cs.v, 0,
                                p.r, TRUE),
                   p.nd)

Context_create_xml ==
    \E xml_file \in Strings :
        LET cs == CStringNew(xml_file) IN
        IF ~cs.ok THEN Bail("create_xml", 0, xml_file, ErrNul)
        ELSE \E p \in CreateResults :
                WrapHandle("create_xml", xml_file,
                           Call("iio_create_xml_context", NULL, cs.v, 0,
                                p.r, TRUE),
                   p.nd)

Context_create_xml_mem ==
    \E xml \in Strings :
        LET n  == Len(xml)
            cs == CStringNew(xml) IN
        IF ~cs.ok THEN Bail("create_xml_mem", 0, xml, ErrNul)
        ELSE \E p \in CreateResults :
                WrapHandle("create_xml_mem", xml,
                           Call("iio_create_xml_context_mem", NULL, cs.v, n,
                                p.r, TRUE),
                   p.nd)

\* ---- clone and drop of a Context ----
\* #[derive(Clone)]: Rc::clone of inner
Context_clone(c) ==
    /\ c \in LiveCtx
    /\ FreeCtx # {}
    /\ LET h == ctxs[c].ctx
           n == Min(FreeCtx)
       IN /\ strong' = Rc_clone(h)
          /\ ctxs' = [ctxs EXCEPT ![n] = [live |-> TRUE, ctx |-> h]]
          /\ last' = Last("clone", c, <<>>, Usize(0), "Context", n, <<>>)
          /\ UNCHANGED <<native, nDevices, destroyCalls, devs, iters, hist>>

\* a Context value goes out of scope
Context_drop(c) ==
    /\ c \in LiveCtx
    /\ ~Borrowed(c)
    /\ ctxs' = [ctxs EXCEPT ![c] = NoCtx]
    /\ Rc_drop(ctxs[c].ctx,
               [Last("drop", c, <<>>, Usize(0), "unit", 0, <<>>)
                   EXCEPT !.h = ctxs[c].ctx])
    /\ UNCHANGED <<nDevices, devs, iters, hist>>

\* pub fn destroy(self) {}: self is dropped at the end of the empty body
Context_destroy_force(c) ==
    /\ c \in LiveCtx
    /\ ~Borrowed(c)
    /\ ctxs' = [ctxs EXCEPT ![c] = NoCtx]
    /\ strong' = [strong EXCEPT ![ctxs[c].ctx] = @ - 1]
    /\ InnerContext_drop(ctxs[c].ctx,
                         [Last("destroy", c, <<>>, Usize(0), "unit", 0, <<>>)
                             EXCEPT !.h = ctxs[c].ctx])
    /\ UNCHANGED <<nDevices, devs, iters, hist>>
Context_destroy(c) ==
    /\ c \in LiveCtx
    /\ ~Borrowed(c)
    /\ ctxs' = [ctxs EXCEPT ![c] = NoCtx]
    /\ Rc_drop(ctxs[c].ctx,
               [Last("destroy", c, <<>>, Usize(0), "unit", 0, <<>>)
                   EXCEPT !.h = ctxs[c].ctx])
    /\ UNCHANGED <<nDevices, devs, iters, hist>>

\* ---- equality ----
\* PartialEq for Context: self.inner.ctx == other.inner.ctx
Context_eq_structural(a, b) ==
    /\ a \in LiveCtx /\ b \in LiveCtx
    /\ last' = [Last("eq", a, <<>>, Usize(0),
                     IF nDevices[ctxs[a].ctx] = nDevices[ctxs[b].ctx]
                     THEN "true" ELSE "false", 0, <<>>)
                   EXCEPT !.other = b]
    /\ UNCHANGED <<native, nDevices, destroyCalls, strong, ctxs, devs, iters,
                   hist>>
Context_eq(a, b) ==
    /\ a \in LiveCtx /\ b \in LiveCtx
    /\ last' = [Last("eq", a, <<>>, Usize(0),
                     IF ctxs[a].ctx = ctxs[b].ctx THEN "true" ELSE "false",
                     0, <<>>)
                   EXCEPT !.other = b]
    /\ UNCHANGED <<native, nDevices, destroyCalls, strong, ctxs, devs, iters,
                   hist>>

\* ---- queries ----
\* an operation on &self whose only effect is its native call
Query(op, c, ret, call) ==
    /\ last' = Last(op, c, <<>>, Usize(0), ret, 0, <<call>>)
    /\ UNCHANGED <<native, nDevices, destroyCalls, strong, ctxs, devs, iters,
                   hist>>

Context_description(c) ==
    /\ c \in LiveCtx
    /\ LET h == ctxs[c].ctx IN
       \E pstr \in {0, 1} :
          Query("description", c,
                IF pstr = NULL THEN "String(empty)" ELSE "String",
                Call("iio_context_get_description", h, <<>>, 0, pstr,
                     native[h] = "live"))

Context_num_attrs(c) ==
    /\ c \in LiveCtx
    /\ LET h == ctxs[c].ctx IN
       \E n \in {0, 1} :
          Query("num_attrs", c, "usize",
                Call("iio_context_get_attrs_count", h, <<>>, 0, n,
                     native[h] = "live"))

Context_num_devices(c) ==
    /\ c \in LiveCtx
    /\ LET h == ctxs[c].ctx
           n == iio_context_get_devices_count(h)
       IN /\ last' = Last("num_devices", c, <<>>, AsUsize(n), "usize", 0,
                          <<Call("iio_context_get_devices_count", h, <<>>, 0,
                                 n[1], native[h] = "live")>>)
          /\ UNCHANGED <<native, nDevices, destroyCalls, strong, ctxs, devs,
                         iters, hist>>

\* timeout_ms: u64 = 1000 * timeout.as_secs() + u64::from(timeout.subsec_millis())
timeout_ms(timeout) ==
    LimbMulAdd(timeout.secs, 1000, timeout.nanos \div 1000000)

Context_set_timeout(c) ==
    /\ c \in LiveCtx
    /\ ~Borrowed(c)
    /\ LET h == ctxs[c].ctx IN
       \E timeout \in Durations, ret \in {0, -1} :
          LET ms == timeout_ms(timeout)
              call == Call("iio_context_set_timeout", h, AsCUint(ms), 0, ret,
                           native[h] = "live")
          IN /\ last' = [Last("set_timeout", c, <<>>, ms,
                              IF ret < 0 THEN ErrSys ELSE "Ok", 0, <<call>>)
                           EXCEPT !.dur = timeout]
             /\ UNCHANGED <<native, nDevices, destroyCalls, strong, ctxs,
                            devs, iters, hist>>

\* ---- devices ----
\* `Device { dev, ctx: self.clone() }`: the Device takes a share of the context
Device_noclone(h, dev, l) ==
    /\ FreeDev # {}
    /\ LET d == Min(FreeDev)
       IN /\ devs' = [devs EXCEPT ![d] = [live |-> TRUE, dev |-> dev, ctx |-> h]]
          /\ last' = [l EXCEPT !.out = d]
          /\ UNCHANGED <<strong, native, nDevices, destroyCalls, ctxs>>
Device_new(h, dev, l) ==
    /\ FreeDev # {}
    /\ LET d == Min(FreeDev)
       IN /\ strong' = Rc_clone(h)
          /\ devs' = [devs EXCEPT ![d] = [live |-> TRUE, dev |-> dev, ctx |-> h]]
          /\ last' = [l EXCEPT !.out = d]
          /\ UNCHANGED <<native, nDevices, destroyCalls, ctxs>>

\* the body of get_device; lOk and lErr are the records of its two outcomes
GetDevice_leak(c, idx, lOk, lErr) ==
    LET h    == ctxs[c].ctx
        i    == AsCUint(idx)
        dev  == iio_context_get_device(h, i)
        call == Call("iio_context_get_device", h, i, 0, dev,
                     native[h] = "live")
    IN IF dev = NULL
       THEN /\ last' = [lErr EXCEPT !.calls = <<call>>]
            /\ strong' = Rc_clone(h)
            /\ UNCHANGED <<native, nDevices, destroyCalls, ctxs, devs>>
       ELSE Device_new(h, dev, [lOk EXCEPT !.calls = <<call>>])
GetDevice(c, idx, lOk, lErr) ==
    LET h    == ctxs[c].ctx
        i    == AsCUint(idx)
        dev  == iio_context_get_device(h, i)
        call == Call("iio_context_get_device", h, i, 0, dev,
                     native[h] = "live")
    IN IF dev = NULL
       THEN /\ last' = [lErr EXCEPT !.calls = <<call>>]
            /\ UNCHANGED <<native, nDevices, destroyCalls, strong, ctxs, devs>>
       ELSE Device_new(h, dev, [lOk EXCEPT !.calls = <<call>>])

IdxInputs ==
    {Usize(n) : n \in 0..(MaxDevices + 1)} \cup {<<0, 0, 1, 0>>, <<1, 0, 1, 0>>}

Context_get_device(c) ==
    /\ c \in LiveCtx
    /\ \E idx \in IdxInputs :
          GetDevice(c, idx,
                    Last("get_device", c, <<>>, idx, "Ok", 0, <<>>),
                    Last("get_device", c, <<>>, idx, ErrRange, 0, <<>>))
    /\ UNCHANGED <<iters, hist>>

Context_find_device_nopanic(c) ==
    /\ c \in LiveCtx
    /\ \E name \in Strings :
          LET cs == CStringNew(name) IN
          IF ~cs.ok THEN Bail("find_device", c, name, "None")
          ELSE LET h    == ctxs[c].ctx
                   dev  == iio_context_find_device(h, cs.v)
                   call == Call("iio_context_find_device", h, cs.v, 0, dev,
                                native[h] = "live")
               IN IF dev = NULL
                  THEN /\ last' = Last("find_device", c, name, Usize(0),
                                       "None", 0, <<call>>)
                       /\ UNCHANGED <<native, nDevices, destroyCalls, strong,
                                      ctxs, devs, iters, hist>>
                  ELSE /\ Device_new(h, dev, Last("find_device", c, name,
                                                  Usize(0), "Some", 0,
                                                  <<call>>))
                       /\ UNCHANGED <<iters, hist>>
Context_find_device_nocheck(c) ==
    /\ c \in LiveCtx
    /\ \E name \in Strings :
          LET cs == CStringNew(name) IN
          IF ~cs.ok THEN Bail("find_device", c, name, "Panic")
          ELSE LET h    == ctxs[c].ctx
                   dev  == iio_context_find_device(h, cs.v)
                   call == Call("iio_context_find_device", h, cs.v, 0, dev,
                                native[h] = "live")
               IN /\ Device_new(h, dev, Last("find_device", c, name,
                                             Usize(0), "Some", 0, <<call>>))
                  /\ UNCHANGED <<iters, hist>>
Context_find_device(c) ==
    /\ c \in LiveCtx
    /\ \E name \in Strings :
          LET cs == CStringNew(name) IN
          IF ~cs.ok THEN Bail("find_device", c, name, "Panic")
          ELSE LET h    == ctxs[c].ctx
                   dev  == iio_context_find_device(h, cs.v)
                   call == Call("iio_context_find_device", h, cs.v, 0, dev,
                                native[h] = "live")
               IN IF dev = NULL
                  THEN /\ last' = Last("find_device", c, name, Usize(0),
                                       "None", 0, <<call>>)
                       /\ UNCHANGED <<native, nDevices, destroyCalls, strong,
                                      ctxs, devs, iters, hist>>
                  ELSE /\ Device_new(h, dev, Last("find_device", c, name,
                                                  Usize(0), "Some", 0,
                                                  <<call>>))
                       /\ UNCHANGED <<iters, hist>>

\* a Device value goes out of scope: its ctx field is dropped
Device_drop(d) ==
    /\ d \in LiveDev
    /\ devs' = [devs EXCEPT ![d] = NoDev]
    /\ Rc_drop(devs[d].ctx,
               [Last("drop_device", 0, <<>>, Usize(0), "unit", d, <<>>)
                   EXCEPT !.h = devs[d].ctx])
    /\ UNCHANGED <<nDevices, ctxs, iters, hist>>

\* ---- DeviceIterator ----
Context_devices_from1(c) ==
    /\ c \in LiveCtx
    /\ FreeIter # {}
    /\ LET i == Min(FreeIter)
       IN /\ iters' = [iters EXCEPT ![i] =
                          [live |-> TRUE, ctx |-> c, idx |-> Usize(1)]]
          /\ hist' = [hist EXCEPT ![i] = NoHist]
          /\ last' = Last("devices", c, <<>>, Usize(0), "DeviceIterator", i,
                          <<>>)
          /\ UNCHANGED <<native, nDevices, destroyCalls, strong, ctxs, devs>>
Context_devices(c) ==
    /\ c \in LiveCtx
    /\ FreeIter # {}
    /\ LET i == Min(FreeIter)
       IN /\ iters' = [iters EXCEPT ![i] =
                          [live |-> TRUE, ctx |-> c, idx |-> Usize(0)]]
          /\ hist' = [hist EXCEPT ![i] = NoHist]
          /\ last' = Last("devices", c, <<>>, Usize(0), "DeviceIterator", i,
                          <<>>)
          /\ UNCHANGED <<native, nDevices, destroyCalls, strong, ctxs, devs>>

\* the cursor after a next(): `self.idx += 1` on Ok, untouched on Err
NextIdxRewind(idx, ok) == IF ok THEN LimbInc(idx) ELSE Usize(0)
NextIdxStuck(idx, ok) == idx
NextIdxSkip(idx, ok) == LimbInc(idx)
NextIdx(idx, ok) == IF ok THEN LimbInc(idx) ELSE idx

DeviceIterator_next(i) ==
    /\ i \in LiveIter
    /\ LET it == iters[i]
       IN /\ GetDevice(it.ctx, it.idx,
                       Last("next", i, <<>>, it.idx, "Some", 0, <<>>),
                       Last("next", i, <<>>, it.idx, "None", 0, <<>>))
          /\ LET ok == last'.ret = "Some"
             IN /\ iters' = [iters EXCEPT ![i].idx = NextIdx(@, ok)]
                /\ hist' = [hist EXCEPT ![i] =
                     IF ok
                     THEN [yielded   |-> Append(@.yielded,
                                                devs'[last'.out].dev - 1),
                           nones     |-> @.nones,
                           resumed   |-> @.resumed \/ @.nones > 0]
                     ELSE [@ EXCEPT !.nones = IF @ < 2 THEN @ + 1 ELSE @]]

\* a DeviceIterator goes out of scope, ending its borrow of the Context
DeviceIterator_drop(i) ==
    /\ i \in LiveIter
    /\ iters' = [iters EXCEPT ![i] = NoIter]
    /\ hist' = [hist EXCEPT ![i] = NoHist]
    /\ last' = Last("drop_iter", i, <<>>, Usize(0), "unit", 0, <<>>)
    /\ UNCHANGED <<native, nDevices, destroyCalls, strong, ctxs, devs>>

Next ==
    \/ Context_new
    \/ Context_from_uri
    \/ Context_create_from_uri
    \/ Context_create_local
    \/ Context_create_network
    \/ Context_create_xml
    \/ Context_create_xml_mem
    \/ \E c \in CtxSlots : Context_clone(c)
    \/ \E c \in CtxSlots : Context_drop(c)
    \/ \E c \in CtxSlots : Context_destroy(c)
    \/ \E a, b \in CtxSlots : Context_eq(a, b)
    \/ \E c \in CtxSlots : Context_description(c)
    \/ \E c \in CtxSlots : Context_num_attrs(c)
    \/ \E c \in CtxSlots : Context_num_devices(c)
    \/ \E c \in CtxSlots : Context_set_timeout(c)
    \/ \E c \in CtxSlots : Context_get_device(c)
    \/ \E c \in CtxSlots : Context_find_device(c)
    \/ \E d \in DevSlots : Device_drop(d)
    \/ \E c \in CtxSlots : Context_devices(c)
    \/ \E i \in IterSlots : DeviceIterator_next(i)
    \/ \E i \in IterSlots : DeviceIterator_drop(i)

Spec == Init /\ [][Next]_vars

\* ---- properties ----
CreateFns == {"iio_create_default_context", "iio_create_context_from_uri",
              "iio_create_local_context", "iio_create_network_context",
              "iio_create_xml_context", "iio_create_xml_context_mem"}
StrFactories == {"from_uri", "create_from_uri", "create_network",
                 "create_xml", "create_xml_mem"}
Factories == StrFactories \cup {"new", "create_local"}
DestroyIssued(h) ==
    \E i \in 1..Len(last.calls) :
        last.calls[i].fn = "iio_context_destroy" /\ last.calls[i].h = h

\* C1: every native handle a factory returned is destroyed exactly once:
\* never while a Context or Device still shares it, and always once the
\* last share is gone; the destroy call is issued by the drop that releases
\* the last share, on a handle that is still live.
C1_DestroyExactlyOnce ==
    /\ \A h \in Handles :
          /\ destroyCalls[h] <= 1
          /\ Shares(h) > 0 => destroyCalls[h] = 0
          /\ (native[h] # "unalloc" /\ Shares(h) = 0) => destroyCalls[h] = 1
    /\ \A i \in 1..Len(last.calls) :
          last.calls[i].fn = "iio_context_destroy" =>
              /\ last.op \in {"drop", "destroy", "drop_device"}
              /\ last.calls[i].h = last.h
              /\ last.calls[i].ok
              /\ Shares(last.h) = 0

\* the clone in slot 2 of the first context is the last share to be dropped,
\* after the original, and that drop destroys the handle
C1_Witness ==
    /\ last.op = "drop" /\ last.self = 2 /\ last.h = 1
    /\ native[2] = "unalloc"
    /\ DestroyIssued(1)
    /\ destroyCalls[1] = 1

\* C2: no native operation issued through a Context is performed on a
\* handle that has been destroyed.
C2_NoUseAfterDestroy ==
    \A i \in 1..Len(last.calls) :
        last.calls[i].fn \notin (CreateFns \cup {"iio_context_destroy"}) =>
            last.calls[i].ok

\* a native lookup through the clone in slot 2 after the original was dropped
C2_Witness ==
    /\ last.op = "get_device" /\ last.self = 2
    /\ ~ctxs[1].live
    /\ native[2] = "unalloc"
    /\ Len(last.calls) = 1

\* C3: while a Device is alive the native handle of its context is not
\* destroyed, whatever happened to the Context values.
C3_DeviceKeepsContextAlive ==
    \A d \in LiveDev :
        /\ native[devs[d].ctx] = "live"
        /\ destroyCalls[devs[d].ctx] = 0

\* a Device outlives every Context of its handle
C3_Witness ==
    /\ last.op \in {"drop", "destroy"}
    /\ \E d \in LiveDev :
          /\ devs[d].ctx = last.h
          /\ \A c \in LiveCtx : ctxs[c].ctx # last.h

\* C4: destroy() releases the one share it consumes: the native handle is
\* destroyed by it exactly when no other Context and no Device shares it.
C4_DestroyReleasesOneShare ==
    last.op = "destroy" =>
        /\ ~ctxs[last.self].live
        /\ DestroyIssued(last.h) <=> Shares(last.h) = 0
        /\ (native[last.h] = "destroyed") <=> Shares(last.h) = 0
        /\ strong[last.h] = Shares(last.h)

\* destroy() of a Context whose handle a Device still shares
C4_Witness ==
    /\ last.op = "destroy"
    /\ native[last.h] = "live"
    /\ \E d \in LiveDev : devs[d].ctx = last.h

\* C5: get_device(idx) fails with a range error when idx >= num_devices()
\* and succeeds when idx < num_devices(), for every usize idx.
C5_GetDeviceRange ==
    last.op = "get_device" =>
        LET n == AsUsize(iio_context_get_devices_count(last.calls[1].h))
        IN IF LimbLt(last.idx, n) THEN last.ret = "Ok"
           ELSE last.ret = ErrRange

\* C6: an iterator yields the devices 0, 1, 2, .. in index order, never more
\* than num_devices() of them, and returns None only after all of them.
C6_IterationInOrder ==
    \A i \in LiveIter :
        LET n == nDevices[ctxs[iters[i].ctx].ctx]
            y == hist[i].yielded
        IN /\ \A k \in 1..Len(y) : y[k] = k - 1
           /\ Len(y) <= n
           /\ hist[i].nones > 0 => Len(y) = n
           /\ iters[i].idx = Usize(Len(y))

\* an iterator over MaxDevices devices has yielded them all and returned None
C6_Witness ==
    \E i \in LiveIter :
        /\ hist[i].nones > 0
        /\ Len(hist[i].yielded) = MaxDevices
        /\ last.op = "next" /\ last.ret = "None"

\* C7: once next() has returned None no later next() yields a Device, and
\* no Device is yielded twice.
C7_ExhaustionPermanent ==
    \A i \in LiveIter :
        /\ ~hist[i].resumed
        /\ \A j, k \in 1..Len(hist[i].yielded) :
              j # k => hist[i].yielded[j] # hist[i].yielded[k]

\* next() called again on an exhausted iterator that had yielded a Device
C7_Witness ==
    \E i \in LiveIter :
        /\ hist[i].nones = 2
        /\ Len(hist[i].yielded) >= 1
        /\ last.op = "next" /\ last.ret = "None"

\* C8: a factory given a string with an embedded nul byte returns an
\* argument error, makes no native call and creates no Context.
C8_NulRejected ==
    (last.op \in StrFactories /\ HasNul(last.str)) =>
        /\ last.ret \in {ErrNul, ErrFromUri}
        /\ last.calls = <<>>
        /\ last.out = 0

C8_Witness ==
    /\ last.op = "create_xml_mem"
    /\ HasNul(last.str)
    /\ last.ret = ErrNul

\* C9: a factory returns a Context exactly when its native creation call
\* returned a non-null handle; on NULL it returns a system error, wraps
\* nothing, and iio_context_destroy is never called with NULL.
C9_NullNeverWrapped ==
    /\ destroyCalls[NULL] = 0
    /\ strong[NULL] = 0
    /\ \A c \in LiveCtx : ctxs[c].ctx # NULL
    /\ last.op \in Factories =>
          /\ (last.ret = "Ok") <=>
                (last.calls # <<>> /\ last.calls[1].r # NULL)
          /\ (last.calls # <<>> /\ last.calls[1].r = NULL) =>
                (last.ret = ErrSys /\ last.out = 0)
          /\ last.ret = "Ok" =>
                ctxs[last.out] = [live |-> TRUE, ctx |-> last.calls[1].r]

\* a native creation call returned NULL
C9_Witness ==
    /\ last.op \in Factories
    /\ last.calls # <<>>
    /\ last.calls[1].r = NULL
    /\ last.ret = ErrSys

\* C10: find_device with a nul-free name returns None when the native
\* lookup finds nothing, and otherwise a Device with the device found and a
\* share of the context.
C10_FindDevice ==
    (last.op = "find_device" /\ ~HasNul(last.str)) =>
        LET call == last.calls[1] IN
        /\ call.arg = last.str
        /\ call.r = NULL => (last.ret = "None" /\ last.out = 0)
        /\ call.r # NULL =>
              /\ last.ret = "Some"
              /\ devs[last.out] = [live |-> TRUE, dev |-> call.r,
                                   ctx |-> call.h]
              /\ strong[call.h] = Shares(call.h)

\* a lookup of a name no device of a non-empty context has
C10_Witness ==
    /\ last.op = "find_device"
    /\ last.ret = "None"
    /\ ~HasNul(last.str)
    /\ nDevices[last.calls[1].h] >= 1


\* the whole milliseconds of a Duration: seconds * 1000 + sub-second
\* milliseconds (exact for every Duration of Durations, which stay below 2^64)
WholeMillis(d) == LimbMulAdd(d.secs, 1000, d.nanos \div 1000000)

\* C11: set_timeout hands the native call seconds*1000 + sub-second
\* milliseconds of its Duration; 1500 ms gives 1500 and 2 s gives 2000.
C11_TimeoutMillis ==
    last.op = "set_timeout" =>
        /\ AsUsize(last.calls[1].arg) = WholeMillis(last.dur)
        /\ last.dur = Duration(Usize(1), 500000000) =>
              last.calls[1].arg = CUint(1500)
        /\ last.dur = Duration(Usize(2), 0) =>
              last.calls[1].arg = CUint(2000)

\* C12: from_uri and create_from_uri are the same function of the URI and
\* of the native result: no native call and an argument error for a URI with
\* a nul byte; otherwise one iio_create_context_from_uri call with the URI,
\* a Context when it returns a handle and a system error when it returns NULL.
C12_FromUriSame ==
    last.op \in {"from_uri", "create_from_uri"} =>
        IF HasNul(last.str)
        THEN /\ last.calls = <<>>
             /\ last.ret \in {ErrNul, ErrFromUri}
             /\ last.out = 0
        ELSE /\ Len(last.calls) = 1
             /\ last.calls[1].fn = "iio_create_context_from_uri"
             /\ last.calls[1].arg = last.str
             /\ last.calls[1].r # NULL =>
                   (last.ret = "Ok" /\ ctxs[last.out].ctx = last.calls[1].r)
             /\ last.calls[1].r = NULL => (last.ret = ErrSys /\ last.out = 0)

\* from_uri rejects a URI with a nul byte, with its own error message
C12_Witness ==
    /\ last.op = "from_uri"
    /\ HasNul(last.str)
    /\ last.ret = ErrFromUri

\* C13: a == b holds exactly when the two live Contexts wrap the same native
\* handle; a clone wraps the handle of its original, and a Context a factory
\* has just created wraps a handle no other live Context wraps.
C13_EqIsHandleIdentity ==
    /\ last.op = "eq" =>
          ((last.ret = "true") <=> (ctxs[last.self].ctx = ctxs[last.other].ctx))
    /\ last.op = "clone" => ctxs[last.out].ctx = ctxs[last.self].ctx
    /\ (last.op \in Factories /\ last.ret = "Ok") =>
          \A c \in LiveCtx \ {last.out} : ctxs[c].ctx # ctxs[last.out].ctx

\* two Contexts of separate factory calls, with as many devices, compared
C13_Witness ==
    /\ last.op = "eq"
    /\ last.ret = "false"
    /\ last.self # last.other
    /\ nDevices[ctxs[last.self].ctx] = nDevices[ctxs[last.other].ctx]

\* C15 as claimed: a next() on an iterator that has already returned None
\* makes no native call.
C15_NoRetryAfterNone ==
    (last.op = "next" /\ hist[last.self].nones >= 2) => last.calls = <<>>

\* C15: a next() on an iterator that has already returned None repeats the
\* lookup: one iio_context_get_device call at the unchanged cursor, which
\* fails again, so it returns None and the cursor stays where it was.
C15_RetryAtSameCursor ==
    (last.op = "next" /\ hist[last.self].nones >= 2) =>
        /\ Len(last.calls) = 1
        /\ last.calls[1].fn = "iio_context_get_device"
        /\ last.calls[1].arg = AsCUint(last.idx)
        /\ last.calls[1].r = NULL
        /\ last.ret = "None"
        /\ iters[last.self].idx = last.idx
        /\ last.idx = Usize(Len(hist[last.self].yielded))

\* a second None from an iterator over a context without devices
C15_Witness ==
    /\ last.op = "next"
    /\ hist[last.self].nones = 2
    /\ hist[last.self].yielded = <<>>
    /\ Len(last.calls) = 1

\* C16: find_device with a name that has a nul byte panics (the unwrap of
\* the CString::new error) before any native call: it returns neither an
\* error nor None, creates no Device and leaves every share count as it was.
C16_FindDevicePanics ==
    [][(last'.op = "find_device" /\ HasNul(last'.str)) =>
          /\ last'.ret = "Panic"
          /\ last'.calls = <<>>
          /\ last'.out = 0
          /\ UNCHANGED <<strong, devs, ctxs, native, destroyCalls>>]_vars

C16_Witness ==
    /\ last.op = "find_device"
    /\ HasNul(last.str)
    /\ last.ret = "Panic"
    /\ ctxs[last.self].live

\* C17: the native timeout value is 0 exactly for a Duration shorter than
\* one millisecond; a Duration of a whole millisecond or more gives a
\* non-zero value.
C17_ZeroOnlyBelowMilli ==
    last.op = "set_timeout" =>
        ((last.calls[1].arg = CUint(0)) <=>
            (last.dur.secs = Usize(0) /\ last.dur.nanos < 1000000))

\* C18: the index get_device hands to the native lookup equals idx.
C18_IndexPassedUnchanged ==
    last.op = "get_device" => AsUsize(last.calls[1].arg) = last.idx

\* the Context and Device values of cs and ds that share handle h
SharesIn(cs, ds, h) ==
    Cardinality({c \in CtxSlots : cs[c].live /\ cs[c].ctx = h})
    + Cardinality({d \in DevSlots : ds[d].live /\ ds[d].ctx = h})

\* C19: a get_device, find_device or next() that returns a Device adds
\* exactly one share of the context, the Device returned; one that returns a
\* range error or None leaves the shares and the native handle as they were.
C19_LookupShares ==
    [][(last'.op \in {"get_device", "find_device", "next"}
            /\ last'.calls # <<>>) =>
          IF last'.ret \in {"Ok", "Some"}
          THEN /\ strong' = [strong EXCEPT ![last'.calls[1].h] = @ + 1]
               /\ SharesIn(ctxs', devs', last'.calls[1].h)
                     = SharesIn(ctxs, devs, last'.calls[1].h) + 1
               /\ ~devs[last'.out].live
               /\ devs'[last'.out].live
               /\ devs'[last'.out].ctx = last'.calls[1].h
               /\ UNCHANGED <<ctxs, native, destroyCalls>>
          ELSE /\ last'.ret \in {ErrRange, "None"}
               /\ UNCHANGED <<strong, ctxs, devs, native, destroyCalls>>]_vars

\* an iterator returns None while a Device it yielded shares the context
C19_Witness ==
    /\ last.op = "next"
    /\ last.ret = "None"
    /\ \E d \in LiveDev : devs[d].ctx = last.calls[1].h
    /\ strong[last.calls[1].h] >= 2

\* C20: the cursor of a DeviceIterator counts the Devices it has yielded:
\* devices() sets it to 0, a next() that yields a Device adds exactly 1, every
\* other step (a next() that returns None included) leaves it alone, so it
\* never decreases, and it never exceeds num_devices().
C20_CursorCountsYielded ==
    [][\A i \in IterSlots :
          /\ (last'.op = "devices" /\ last'.out = i) =>
                iters'[i].idx = Usize(0)
          /\ (iters[i].live /\ iters'[i].live) =>
                /\ IF last'.op = "next" /\ last'.self = i
                      /\ last'.ret = "Some"
                   THEN /\ iters'[i].idx = LimbInc(iters[i].idx)
                        /\ Len(hist'[i].yielded) = Len(hist[i].yielded) + 1
                   ELSE /\ iters'[i].idx = iters[i].idx
                        /\ hist'[i].yielded = hist[i].yielded
                /\ ~LimbLt(iters'[i].idx, iters[i].idx)
          /\ iters'[i].live =>
                /\ iters'[i].idx = Usize(Len(hist'[i].yielded))
                /\ ~LimbLt(AsUsize(CUint(nDevices'[ctxs'[iters'[i].ctx].ctx])),
                           iters'[i].idx)]_vars

\* the second Device of an iteration has just been yielded
C20_Witness ==
    /\ last.op = "next"
    /\ last.ret = "Some"
    /\ iters[last.self].idx = Usize(2)
    /\ Len(hist[last.self].yielded) = 2

====
